---- MODULE Spec2Model ----
(***************************************************************************)
(* Model of the multi-tenant sync service (src/sync-service):              *)
(*   database/db_manager_multitenant.py  MultiTenantDatabaseManager        *)
(*   sync_worker_multitenant.py          MultiTenantSyncWorker             *)
(*   add_tenant.py                       add_tenant                        *)
(* The store is modelled as its four tables; the worker as the sequential  *)
(* control flow of run() -> run_sync_cycle() -> sync_tenant() ->           *)
(* sync_tenant_folder() -> retry_failed_files(), one step per loop         *)
(* iteration.  Timestamps are kept at the granularity of the calendar day, *)
(* which is all the string comparison of the change detection looks at.    *)
(***************************************************************************)
EXTENDS Integers, Sequences, FiniteSets, TLC

(* ------------------------------ bounds -------------------------------- *)

\* last calendar day the clock reaches
MaxDay == 2

\* retry_count is unbounded in the code; failures are cut off at this value
MaxRetryCount == 4

(* ------------------------- program constants -------------------------- *)

\* config.SYNC_CONFIG['max_retries']
max_retries == 3

NULL == "NULL"

TenantKeys == {"t1", "t2"}

\* folders that initialize_tenant_folders creates for a new tenant
DefaultFolders == {"f1", "f2"}

FileIds == {"x", "y"}

Days == 0..MaxDay

Keys == TenantKeys \X DefaultFolders \X FileIds

VARIABLES
    \* ---- the store (PostgreSQL tables)
    tenants,         \* tenant id -> row of table tenants
    folder_config,   \* <<tenant id, folder_name>> -> row of table folder_config
    sync_data,       \* <<tenant id, folder_name, file_id>> -> row of table sync_data
    cycle_log,       \* rows appended to sync_log since the current cycle began
    \* ---- the file system below each tenant's output_path
    published,       \* <<tenant id, folder_name>> -> file ids in the component HTML
    \* ---- the environment
    today,           \* calendar day of CURRENT_TIMESTAMP
    drive,           \* <<tenant id, folder_name>> -> files the Drive folder can hold
    \* ---- MultiTenantSyncWorker
    pc,              \* position in run()
    drive_services,  \* self.drive_services: tenants with a cached Drive service
    tenants_todo,    \* run_sync_cycle: tenants not yet synced in this cycle
    folders_todo,    \* sync_tenant: folder configs not yet synced
    counts,          \* sync_tenant: success_count / error_count
    folder_result,   \* value returned by the last sync_tenant_folder call
    files,           \* sync_tenant_folder: listing, file id -> modifiedTime day
    files_todo,      \* sync_tenant_folder: listed files not yet processed
    synced_file_ids, \* sync_tenant_folder: ids seen in this listing
    retry_todo,      \* retry_failed_files: failed_files rows not yet retried
    \* ---- calls made on the database manager from outside the worker
    create_result,   \* the last create_tenant call and what it returned
    last_call,       \* the last sync_data operation called directly
    \* ---- history of the current cycle (observers, never read by the code)
    listed,          \* <<t, f>> -> ids returned by this cycle's listing
    list_failed,     \* folders whose files().list() raised in this cycle
    parsed_ok,       \* files upserted by the current folder sync
    parse_failed,    \* files whose processing failed in the current folder sync
    retry_ok,        \* keys upserted by the current retry pass
    fail_active,     \* <<t, f>> -> ids Active when the listing last failed
    heal_due,        \* <<t, f>> -> ids the self-healing claim expects Active
    \* ---- the connection pool of the database manager
    pool,            \* self.pool: "none", "open", "failed" or "closed"
    checked_out,     \* connections taken with getconn() and not yet put back
    tx,              \* the transaction of the store operation in progress
    db_faults,       \* environment: the database may fail a statement
    write_failed,    \* history: files whose store write raised in this folder sync
    \* ---- the pass in progress
    output_ok,       \* environment: the tenants' output directories can be made
    pass_log,        \* history: what the current pass has visited, and how it ended
    retry_start      \* history: retry_count of the rows the retry pass selected

storeVars == <<tenants, folder_config, sync_data, cycle_log, published>>
workerVars == <<pc, drive_services, tenants_todo, folders_todo, counts,
                folder_result, files, files_todo, synced_file_ids, retry_todo>>
histVars == <<listed, list_failed, parsed_ok, parse_failed, retry_ok,
              fail_active, heal_due>>
callVars == <<create_result, last_call>>
connVars == <<pool, checked_out, tx, db_faults>>
poolVars == <<connVars, write_failed>>
passVars == <<output_ok, pass_log, retry_start>>
vars == <<storeVars, today, drive, workerVars, callVars, histVars, poolVars,
          passVars>>

(* ----------------------- timestamps as strings ------------------------ *)

\* code points of the separators between date and time
CharT == 84
CharSpace == 32

\* Drive's modifiedTime, RFC 3339: "YYYY-MM-DDTHH:MM:SS.sssZ"
DriveTimeString(day) == <<day, CharT>>

\* str(datetime) of a timestamp column: "YYYY-MM-DD HH:MM:SS.ffffff"
DbTimeString(day) == <<day, CharSpace>>

\* Python's str <= str: lexicographic comparison
RECURSIVE StrLE(_, _)
StrLE(a, b) ==
    IF a = <<>> THEN TRUE
    ELSE IF b = <<>> THEN FALSE
    ELSE IF Head(a) < Head(b) THEN TRUE
    ELSE IF Head(a) > Head(b) THEN FALSE
    ELSE StrLE(Tail(a), Tail(b))

(* ------------------------------ rows ---------------------------------- *)

\* a timestamp column that is NULL
NoDay == -1

\* error_message texts written by the worker
MsgParse == "Failed to parse file of type"
MsgProcessing == "Processing error"
MsgRetryParse == "Retry failed - could not parse file"
MsgRetryError == "Retry error"

Messages == {MsgParse, MsgProcessing, MsgRetryParse, MsgRetryError}

\* column defaults of a freshly inserted sync_data row
NewSyncRow(data, now) ==
    [status |-> "active", error_message |-> NULL, retry_count |-> 0,
     last_synced |-> now, data |-> data]

\* the column the change detection reads: time of the last write of the row
last_updated(row) == row.last_synced

\* row of a freshly inserted tenant
NewTenantRow(has_service) ==
    [sync_enabled |-> TRUE, last_synced |-> NoDay, has_service |-> has_service]

\* rows created by the SQL function initialize_tenant_folders(tenant_id)
initialize_tenant_folders(fc, t) ==
    [tf \in DOMAIN fc \cup ({t} \X DefaultFolders) |->
        IF tf \in DOMAIN fc THEN fc[tf]
        ELSE [enabled |-> TRUE, drive_folder_id |-> NULL, last_check |-> NoDay]]


(* ------------------- MultiTenantDatabaseManager ----------------------- *)

\* get_connection without the rollback of the except branch
get_connection_NoRollback(committed, work, raised) ==
    work

\* get_connection: commit when the body returns, rollback when it raises
get_connection(committed, work, raised) ==
    IF raised THEN committed ELSE work

\* get_all_tenants: ORDER BY tenant_key
TenantOrder == <<"t1", "t2">>

get_all_tenants(tn, enabled_only) ==
    SelectSeq(TenantOrder,
              LAMBDA t : t \in DOMAIN tn /\ (enabled_only => tn[t].sync_enabled))

\* get_tenant_by_id: the row, or NULL
get_tenant_by_id(tn, t) ==
    IF t \in DOMAIN tn THEN t ELSE NULL

\* get_folder_configs: ORDER BY folder_name
FolderOrder == <<"f1", "f2">>

\* get_folder_configs without "AND enabled = TRUE"
get_folder_configs_IgnoreEnabled(fc, t, enabled_only) ==
    SelectSeq(FolderOrder, LAMBDA f : <<t, f>> \in DOMAIN fc)

get_folder_configs(fc, t, enabled_only) ==
    SelectSeq(FolderOrder,
              LAMBDA f : <<t, f>> \in DOMAIN fc /\ (enabled_only => fc[<<t, f>>].enabled))

\* update_tenant_sync_time
update_tenant_sync_time(tn, t, now) ==
    [k \in DOMAIN tn |-> IF k = t THEN [tn[k] EXCEPT !.last_synced = now] ELSE tn[k]]

\* update_folder_check_time
update_folder_check_time(fc, t, f, now) ==
    [k \in DOMAIN fc |->
        IF k = <<t, f>> THEN [fc[k] EXCEPT !.last_check = now] ELSE fc[k]]

\* insert_sync_data whose DO UPDATE leaves retry_count alone
insert_sync_data_KeepRetry(sd, t, f, x, data, now) ==
    LET key == <<t, f, x>> IN
    [k \in DOMAIN sd \cup {key} |->
        IF k # key THEN sd[k]
        ELSE IF key \in DOMAIN sd
             THEN [sd[k] EXCEPT !.data = data,
                                !.last_synced = now,
                                !.status = "active",
                                !.error_message = NULL]
             ELSE NewSyncRow(data, now)]

\* insert_sync_data whose DO UPDATE leaves error_message alone
insert_sync_data_KeepMessage(sd, t, f, x, data, now) ==
    LET key == <<t, f, x>> IN
    [k \in DOMAIN sd \cup {key} |->
        IF k # key THEN sd[k]
        ELSE IF key \in DOMAIN sd
             THEN [sd[k] EXCEPT !.data = data,
                                !.last_synced = now,
                                !.status = "active",
                                !.retry_count = 0]
             ELSE NewSyncRow(data, now)]

\* insert_sync_data: INSERT ... ON CONFLICT (tenant_id, folder_name, file_id) DO UPDATE
insert_sync_data(sd, t, f, x, data, now) ==
    LET key == <<t, f, x>> IN
    [k \in DOMAIN sd \cup {key} |->
        IF k # key THEN sd[k]
        ELSE IF key \in DOMAIN sd
             THEN [sd[k] EXCEPT !.data = data,
                                !.last_synced = now,
                                !.status = "active",
                                !.error_message = NULL,
                                !.retry_count = 0]
             ELSE NewSyncRow(data, now)]

\* WHERE file_id = %s, whatever the tenant
MatchesFile_NoTenant(k, x, t) == k[3] = x

\* WHERE file_id = %s [AND tenant_id = %s]
MatchesFile(k, x, t) == k[3] = x /\ (t # NULL => k[1] = t)

\* mark_file_deleted as a DELETE FROM sync_data
mark_file_deleted_Remove(sd, x, t, now) ==
    [k \in {j \in DOMAIN sd : ~MatchesFile(j, x, t)} |-> sd[k]]

\* mark_file_deleted: UPDATE sync_data SET status = 'deleted', last_synced = now
mark_file_deleted(sd, x, t, now) ==
    [k \in DOMAIN sd |->
        IF MatchesFile(k, x, t)
        THEN [sd[k] EXCEPT !.status = "deleted", !.last_synced = now]
        ELSE sd[k]]

\* mark_file_error: UPDATE sync_data SET status = 'error', error_message, retry_count
mark_file_error_NoIncrement(sd, x, msg, increment_retry, t, now) ==
    [k \in DOMAIN sd |->
        IF MatchesFile(k, x, t)
        THEN [sd[k] EXCEPT !.status = "error", !.error_message = msg,
                           !.last_synced = now]
        ELSE sd[k]]

mark_file_error_Capped(sd, x, msg, increment_retry, t, now) ==
    [k \in DOMAIN sd |->
        IF MatchesFile(k, x, t)
        THEN [sd[k] EXCEPT !.status = "error", !.error_message = msg,
                           !.retry_count =
                               IF increment_retry /\ @ < max_retries
                               THEN @ + 1 ELSE @,
                           !.last_synced = now]
        ELSE sd[k]]

mark_file_error(sd, x, msg, increment_retry, t, now) ==
    [k \in DOMAIN sd |->
        IF MatchesFile(k, x, t)
        THEN [sd[k] EXCEPT !.status = "error",
                           !.error_message = msg,
                           !.retry_count = IF increment_retry THEN @ + 1 ELSE @,
                           !.last_synced = now]
        ELSE sd[k]]

\* get_files_by_folder: keys of the rows selected
get_files_by_folder(sd, t, f, status) ==
    {k \in DOMAIN sd : k[1] = t /\ k[2] = f /\ sd[k].status = status}

\* get_file_by_id: the rows fetchone() can return (the query has no ORDER BY)
get_file_by_id(sd, x, t) ==
    {k \in DOMAIN sd : MatchesFile(k, x, t)}

\* get_files_needing_retry: keys of the rows selected
get_files_needing_retry(sd, maxr, t) ==
    {k \in DOMAIN sd : (t # NULL => k[1] = t)
                       /\ sd[k].status = "error" /\ sd[k].retry_count < maxr}

\* log_operation: INSERT INTO sync_log
log_operation(log, operation, status, t, f) ==
    Append(log, [operation |-> operation, status |-> status,
                 tenant_id |-> t, folder_name |-> f])

\* create_tenant whose INSERT overwrites the row of an existing tenant_key
\* (ON CONFLICT DO UPDATE, as insert_sync_data does)
create_tenant_body_OnConflictUpdate(tn, fc, key, has_service, fault) ==
    IF fault = "insert"
    THEN [tenants |-> tn, folder_config |-> fc, raised |-> "DatabaseError"]
    ELSE LET tn1 == [k \in DOMAIN tn \cup {key} |->
                        IF k = key THEN NewTenantRow(has_service) ELSE tn[k]]
         IN IF fault = "folders"
            THEN [tenants |-> tn1, folder_config |-> fc, raised |-> "DatabaseError"]
            ELSE [tenants |-> tn1,
                  folder_config |-> initialize_tenant_folders(fc, key),
                  raised |-> NULL]

\* create_tenant, the body of the transaction: the tables as the transaction
\* sees them when it ends, and the exception that ended it (NULL: none)
create_tenant_body(tn, fc, key, has_service, fault) ==
    IF key \in DOMAIN tn
    THEN [tenants |-> tn, folder_config |-> fc, raised |-> "UniqueViolation"]
    ELSE IF fault = "insert"
    THEN [tenants |-> tn, folder_config |-> fc, raised |-> "DatabaseError"]
    ELSE LET tn1 == [k \in DOMAIN tn \cup {key} |->
                        IF k = key THEN NewTenantRow(has_service) ELSE tn[k]]
         IN IF fault = "folders"
            THEN [tenants |-> tn1, folder_config |-> fc, raised |-> "DatabaseError"]
            ELSE [tenants |-> tn1,
                  folder_config |-> initialize_tenant_folders(fc, key),
                  raised |-> NULL]

\* create_tenant: the committed tables and the value returned
create_tenant(tn, fc, key, has_service, fault) ==
    LET body == create_tenant_body(tn, fc, key, has_service, fault)
        work == [tenants |-> body.tenants, folder_config |-> body.folder_config]
        done == get_connection([tenants |-> tn, folder_config |-> fc], work,
                               body.raised # NULL)
    IN [tenants |-> done.tenants, folder_config |-> done.folder_config,
        raised |-> body.raised,
        ret |-> IF body.raised # NULL THEN NULL ELSE key]

(* ------------------------ MultiTenantSyncWorker ----------------------- *)

AllFolders == TenantKeys \X DefaultFolders

\* value of a dict after d[k] = v
Put(d, k, v) == [j \in DOMAIN d \cup {k} |-> IF j = k THEN v ELSE d[j]]

EmptyMap == [j \in {} |-> {}]

\* tenant and folder the worker is at
cur_tenant == Head(tenants_todo)
cur_folder == Head(folders_todo)

\* file ids of the Active rows of a folder
ActiveIds(sd, t, f) == {k[3] : k \in get_files_by_folder(sd, t, f, "active")}

\* _get_drive_service: a service is cached, or can be built from the
\* tenant's service account file
HasDriveService(t) == t \in drive_services \/ tenants[t].has_service

\* the listings files().list() can return for a folder on a given day
Listings(t, f, now) ==
    UNION {[S -> 0..now] : S \in SUBSET drive[<<t, f>>]}

\* the outcomes of files().list().execute(): a listing, or an exception
ApiResults(t, f, now) ==
    {[raised |-> FALSE, files |-> l] : l \in Listings(t, f, now)}
    \cup {[raised |-> TRUE, files |-> EmptyMap]}

\* a failure may be recorded as long as no counter passes MaxRetryCount
MayFail(sd, x, t) ==
    \A k \in get_file_by_id(sd, x, t) : sd[k].retry_count < MaxRetryCount

\* the outcomes of a statement of a store write: it raises (TRUE) or not
Faults == IF db_faults THEN BOOLEAN ELSE {FALSE}

\* a pass of which nothing has run yet: calls of sync_tenant_folder per
\* folder, tenants sync_tenant was called for, tenants whose sync raised,
\* whether retry_failed_files was called, and how run_sync_cycle ended
NoPass == [folders |-> EmptyMap, tenants |-> {}, raised |-> {},
           retry |-> FALSE, outcome |-> "running"]

\* the number of calls of sync_tenant_folder for a folder in this pass
Visits(pl, tf) == IF tf \in DOMAIN pl.folders THEN pl.folders[tf] ELSE 0

run_after_cycle_AlwaysPoll(outcome) == "sleep"

\* run: where the loop goes when run_sync_cycle has returned ("completed")
\* or raised ("raised"): time.sleep(poll_interval), or the handler's
\* time.sleep(retry_delay)
run_after_cycle(outcome) ==
    IF outcome = "raised" THEN "error_sleep" ELSE "sleep"

\* run_sync_cycle, up to the loop over the tenants
RunSyncCycle ==
    /\ pc = "cycle_start"
    /\ LET tl == get_all_tenants(tenants, TRUE) IN
       /\ tenants_todo' = tl
       /\ pc' = IF tl = <<>> THEN run_after_cycle("completed") ELSE "tenant"
       /\ pass_log' = [pass_log EXCEPT !.outcome =
                          IF tl = <<>> THEN "completed" ELSE @]
    /\ UNCHANGED <<output_ok, retry_start, storeVars, today, drive, drive_services, folders_todo,
                   counts, folder_result, files, files_todo, synced_file_ids,
                   retry_todo, callVars, poolVars, histVars>>

\* sync_tenant, up to the loop over the folders
SyncTenant ==
    /\ pc = "tenant"
    /\ tenants_todo # <<>>
    /\ LET fl == get_folder_configs(folder_config, cur_tenant, TRUE) IN
       IF fl = <<>>
       THEN /\ tenants_todo' = Tail(tenants_todo)
            /\ pc' = "tenant"
            /\ UNCHANGED folders_todo
       ELSE /\ folders_todo' = fl
            /\ pc' = "folder"
            /\ UNCHANGED tenants_todo
    /\ counts' = [success |-> 0, error |-> 0]
    /\ pass_log' = [pass_log EXCEPT !.tenants = @ \cup {cur_tenant}]
    /\ UNCHANGED <<output_ok, retry_start, storeVars, today, drive, drive_services, folder_result, files,
                   files_todo, synced_file_ids, retry_todo, callVars, poolVars,
                   histVars>>

\* _list_drive_files: the value returned; an exception of the API call is
\* swallowed and an empty list returned
list_drive_files(api_result) ==
    IF api_result.raised THEN EmptyMap ELSE api_result.files

\* sync_tenant_folder, up to the loop over the files
SyncTenantFolder_List ==
    /\ pc = "folder"
    /\ folders_todo # <<>>
    /\ LET t == cur_tenant
           f == cur_folder
           tf == <<t, f>>
       IN
       IF folder_config[tf].drive_folder_id = NULL \/ ~HasDriveService(t)
       THEN /\ folder_result' = FALSE
            /\ pc' = "folder_ret"
            /\ UNCHANGED <<drive_services, files, files_todo, synced_file_ids,
                           histVars, write_failed, cycle_log>>
       ELSE IF ~output_ok
       THEN \* _get_html_generator raises: "except Exception" logs the
            \* error and returns False
            /\ drive_services' = drive_services \cup {t}
            /\ cycle_log' = log_operation(cycle_log, "sync_folder", "error", t, f)
            /\ folder_result' = FALSE
            /\ pc' = "folder_ret"
            /\ UNCHANGED <<files, files_todo, synced_file_ids, histVars,
                           write_failed>>
       ELSE /\ drive_services' = drive_services \cup {t}
            /\ UNCHANGED cycle_log
            /\ \E api_result \in ApiResults(t, f, today) :
                 LET fs == list_drive_files(api_result)
                     failed == api_result.raised
                     same == /\ fail_active[tf] # {}
                             /\ \A x \in fail_active[tf] :
                                   /\ x \in DOMAIN fs
                                   /\ <<t, f, x>> \in DOMAIN sync_data
                                   /\ fs[x] = sync_data[<<t, f, x>>].data
                 IN
                 /\ files' = fs
                 /\ files_todo' = DOMAIN fs
                 /\ listed' = Put(listed, tf, DOMAIN fs)
                 /\ list_failed' = IF failed THEN list_failed \cup {tf} ELSE list_failed
                 /\ fail_active' = [fail_active EXCEPT ![tf] =
                        IF failed THEN ActiveIds(sync_data, t, f) ELSE {}]
                 /\ heal_due' = [heal_due EXCEPT ![tf] =
                        IF ~failed /\ same THEN fail_active[tf] ELSE {}]
            /\ synced_file_ids' = {}
            /\ parsed_ok' = {}
            /\ parse_failed' = {}
            /\ write_failed' = {}
            /\ pc' = "file"
            /\ UNCHANGED <<folder_result, retry_ok>>
    /\ pass_log' = [pass_log EXCEPT !.folders =
           Put(@, <<cur_tenant, cur_folder>>,
               Visits(pass_log, <<cur_tenant, cur_folder>>) + 1)]
    /\ UNCHANGED <<output_ok, retry_start, tenants, folder_config, sync_data,
                   published, today, drive, tenants_todo, folders_todo, counts,
                   retry_todo, callVars, connVars>>

\* "if new_modified <= str(existing_modified): continue"
NoChanges(new_modified, existing_file) ==
    StrLE(DriveTimeString(new_modified), DbTimeString(last_updated(existing_file)))

\* sync_tenant_folder, one iteration of the loop over the files
ProcessFile ==
    /\ pc = "file"
    /\ \E x \in files_todo :
         LET t == cur_tenant
             f == cur_folder
             existing == get_file_by_id(sync_data, x, t)
         IN
         /\ files_todo' = files_todo \ {x}
         /\ synced_file_ids' = synced_file_ids \cup {x}
         /\ \/ \* an existing row that is not older than the file: skip
               /\ \E e \in existing : NoChanges(files[x], sync_data[e])
               /\ UNCHANGED <<sync_data, parsed_ok, parse_failed, write_failed>>
            \/ \* no row, or the file is newer: parse, render, save
               /\ \/ existing = {}
                  \/ \E e \in existing : ~NoChanges(files[x], sync_data[e])
               /\ \E outcome \in {"ok", "none", "raise"}, raised \in Faults :
                    /\ IF outcome = "ok"
                       THEN /\ sync_data' = get_connection(sync_data,
                                   insert_sync_data(sync_data, t, f, x, files[x], today),
                                   raised)
                            /\ parsed_ok' = IF raised THEN parsed_ok
                                            ELSE parsed_ok \cup {x}
                            /\ UNCHANGED parse_failed
                       ELSE /\ MayFail(sync_data, x, t)
                            /\ sync_data' = get_connection(sync_data,
                                   mark_file_error(sync_data, x,
                                      IF outcome = "none" THEN MsgParse
                                      ELSE MsgProcessing,
                                      TRUE, t, today),
                                   raised)
                            /\ parse_failed' = parse_failed \cup {x}
                            /\ UNCHANGED parsed_ok
                    /\ write_failed' = IF raised THEN write_failed \cup {x}
                                       ELSE write_failed
    /\ UNCHANGED <<passVars, tenants, folder_config, cycle_log, published, today, drive, pc,
                   drive_services, tenants_todo, folders_todo, counts,
                   folder_result, files, retry_todo, callVars, connVars, listed,
                   list_failed, retry_ok, fail_active, heal_due>>

\* _mark_deleted_files: mark_file_deleted for every Active row of the folder
\* whose file id is not in current_file_ids; the calls for the ids in failed
\* raise in their transaction and are rolled back
RECURSIVE MarkDeletedAll(_, _, _, _)
MarkDeletedAll(sd, ids, t, now) ==
    IF ids = {} THEN sd
    ELSE LET x == CHOOSE i \in ids : TRUE
         IN MarkDeletedAll(mark_file_deleted(sd, x, t, now), ids \ {x}, t, now)

mark_deleted_files(sd, t, f, current_file_ids, failed, now) ==
    MarkDeletedAll(sd, (ActiveIds(sd, t, f) \ current_file_ids) \ failed, t, now)

\* sync_tenant_folder, after the loop over the files
SyncTenantFolder_Finish ==
    /\ pc = "file"
    /\ files_todo = {}
    /\ LET t == cur_tenant
           f == cur_folder
           gone == ActiveIds(sync_data, t, f) \ synced_file_ids
       IN
       \E failed \in (IF db_faults THEN SUBSET gone ELSE {{}}) :
          LET sd1 == mark_deleted_files(sync_data, t, f, synced_file_ids,
                                        failed, today)
          IN
          /\ sync_data' = sd1
          /\ published' = Put(published, <<t, f>>, ActiveIds(sd1, t, f))
          /\ folder_config' = update_folder_check_time(folder_config, t, f, today)
          /\ cycle_log' = log_operation(cycle_log, "sync_folder", "success", t, f)
          /\ write_failed' = write_failed \cup failed
    /\ folder_result' = TRUE
    /\ pc' = "folder_ret"
    /\ UNCHANGED <<passVars, tenants, today, drive, drive_services, tenants_todo,
                   folders_todo, counts, files, files_todo, synced_file_ids, retry_todo,
                   callVars, connVars, histVars>>

\* sync_tenant, the body of the loop over the folders
SyncTenant_Count ==
    /\ pc = "folder_ret"
    /\ counts' = IF folder_result
                 THEN [counts EXCEPT !.success = @ + 1]
                 ELSE [counts EXCEPT !.error = @ + 1]
    /\ folders_todo' = Tail(folders_todo)
    /\ pc' = "folder"
    \* the locals of sync_tenant_folder are gone
    /\ files' = EmptyMap
    /\ files_todo' = {}
    /\ synced_file_ids' = {}
    /\ parsed_ok' = {}
    /\ parse_failed' = {}
    /\ write_failed' = {}
    /\ UNCHANGED <<passVars, storeVars, today, drive, drive_services, tenants_todo,
                   folder_result, retry_todo, callVars, connVars, listed,
                   list_failed, retry_ok, fail_active, heal_due>>

\* sync_tenant, after the loop over the folders
SyncTenant_Return ==
    /\ pc = "folder"
    /\ folders_todo = <<>>
    /\ tenants' = update_tenant_sync_time(tenants, cur_tenant, today)
    /\ tenants_todo' = Tail(tenants_todo)
    /\ pc' = "tenant"
    /\ UNCHANGED <<passVars, folder_config, sync_data, cycle_log, published, today, drive,
                   drive_services, folders_todo, counts, folder_result, files,
                   files_todo, synced_file_ids, retry_todo, callVars, poolVars,
                   histVars>>

\* retry_failed_files, up to the loop over the failed files; rows of a tenant
\* that is gone or has no Drive service are passed over
RetryFailedFiles ==
    /\ pc = "tenant"
    /\ tenants_todo = <<>>
    /\ LET failed_files == get_files_needing_retry(sync_data, max_retries, NULL)
           found == {k \in failed_files : get_tenant_by_id(tenants, k[1]) # NULL}
           todo == {k \in found : HasDriveService(k[1])}
       IN
       IF found # {} /\ ~output_ok
       THEN \* _get_html_generator raises, outside any try: the exception
            \* leaves retry_failed_files and run_sync_cycle
            /\ retry_todo' = {}
            /\ \E k \in found :
                 drive_services' = IF HasDriveService(k[1])
                                   THEN drive_services \cup {k[1]}
                                   ELSE drive_services
            /\ pc' = run_after_cycle("raised")
            /\ pass_log' = [pass_log EXCEPT !.retry = TRUE, !.outcome = "raised"]
            /\ UNCHANGED retry_start
       ELSE /\ retry_todo' = todo
            /\ drive_services' = drive_services \cup {k[1] : k \in todo}
            /\ pc' = IF todo = {} THEN run_after_cycle("completed") ELSE "retry"
            /\ pass_log' = [pass_log EXCEPT !.retry = TRUE,
                               !.outcome = IF todo = {} THEN "completed" ELSE @]
            /\ retry_start' = [k \in todo |-> sync_data[k].retry_count]
    /\ retry_ok' = {}
    /\ UNCHANGED <<output_ok, storeVars, today, drive, tenants_todo, folders_todo, counts,
                   folder_result, files, files_todo, synced_file_ids,
                   callVars, poolVars, listed, list_failed, parsed_ok, parse_failed,
                   fail_active, heal_due>>

\* retry_failed_files, one iteration of the loop over the failed files
RetryFile ==
    /\ pc = "retry"
    /\ \E k \in retry_todo :
         /\ retry_todo' = retry_todo \ {k}
         /\ pc' = IF retry_todo = {k} THEN run_after_cycle("completed")
                  ELSE "retry"
         /\ pass_log' = [pass_log EXCEPT !.outcome =
                            IF retry_todo = {k} THEN "completed" ELSE @]
         /\ \E outcome \in {"ok", "none", "raise"}, raised \in Faults :
              IF outcome = "ok"
              THEN /\ \E modified \in 0..today :
                        sync_data' = get_connection(sync_data,
                           insert_sync_data(sync_data, k[1], k[2], k[3],
                                            modified, today),
                           raised)
                   /\ retry_ok' = IF raised THEN retry_ok ELSE retry_ok \cup {k}
              ELSE /\ MayFail(sync_data, k[3], k[1])
                   /\ sync_data' = get_connection(sync_data,
                         mark_file_error(sync_data, k[3],
                            IF outcome = "none" THEN MsgRetryParse
                            ELSE MsgRetryError,
                            TRUE, k[1], today),
                         raised)
                   /\ UNCHANGED retry_ok
    /\ UNCHANGED <<output_ok, retry_start, tenants, folder_config, cycle_log, published, today, drive,
                   drive_services, tenants_todo, folders_todo, counts,
                   folder_result, files, files_todo, synced_file_ids,
                   callVars, poolVars, listed, list_failed, parsed_ok, parse_failed,
                   fail_active, heal_due>>

\* run: time.sleep(poll_interval) between two cycles
Sleep ==
    /\ pc = "sleep"
    /\ \E d \in {today, today + 1} \cap Days : today' = d
    /\ pc' = "cycle_start"
    /\ cycle_log' = <<>>
    /\ listed' = EmptyMap
    /\ list_failed' = {}
    /\ retry_ok' = {}
    /\ heal_due' = [tf \in AllFolders |-> {}]
    /\ pass_log' = NoPass
    /\ retry_start' = EmptyMap
    /\ UNCHANGED <<output_ok, tenants, folder_config, sync_data, published, drive,
                   drive_services, tenants_todo, folders_todo, counts,
                   folder_result, files, files_todo, synced_file_ids,
                   retry_todo, callVars, poolVars, parsed_ok, parse_failed,
                   fail_active>>

\* a configured folder: the operator has filled in drive_folder_id
ConfiguredFolder == [enabled |-> TRUE, drive_folder_id |-> "drive-id", last_check |-> NoDay]

\* no call of create_tenant yet
NoCreate == [key |-> NULL, fault |-> NULL, existed |-> FALSE, raised |-> NULL,
             ret |-> NULL, unchanged |-> TRUE, dup_rets |-> {}, other_rets |-> {}]

\* no call of a sync_data operation yet
NoCall == [op |-> NULL, seq |-> 0]

\* no store operation in progress; exits: how the operations so far left
\* get_connection
NoTx == [op |-> NULL, exits |-> {}]

\* a folder as initialize_tenant_folders leaves it
DefaultFolder == [enabled |-> TRUE, drive_folder_id |-> NULL, last_check |-> NoDay]

\* the worker after construction: nothing logged or published yet
InitWorker ==
    /\ cycle_log = <<>>
    /\ published = EmptyMap
    /\ pc = "cycle_start"
    /\ drive_services = {}
    /\ tenants_todo = <<>>
    /\ folders_todo = <<>>
    /\ counts = [success |-> 0, error |-> 0]
    /\ folder_result = FALSE
    /\ files = EmptyMap
    /\ files_todo = {}
    /\ synced_file_ids = {}
    /\ retry_todo = {}
    /\ create_result = NoCreate
    /\ last_call = NoCall
    /\ listed = EmptyMap
    /\ list_failed = {}
    /\ parsed_ok = {}
    /\ parse_failed = {}
    /\ retry_ok = {}
    /\ fail_active = [tf \in AllFolders |-> {}]
    /\ heal_due = [tf \in AllFolders |-> {}]
    /\ pool = "open"
    /\ checked_out = 0
    /\ tx = NoTx
    /\ write_failed = {}
    /\ pass_log = NoPass
    /\ retry_start = EmptyMap

\* tenant t1 with folder f1 configured (file x can be in it) and
\* folder f2 left without a Drive folder id
Init ==
    /\ tenants = [t \in {"t1"} |-> NewTenantRow(TRUE)]
    /\ folder_config = [tf \in {"t1"} \X DefaultFolders |->
                           IF tf[2] = "f1" THEN ConfiguredFolder ELSE DefaultFolder]
    /\ drive = [tf \in AllFolders |-> IF tf = <<"t1", "f1">> THEN {"x", "y"} ELSE {}]
    /\ sync_data = EmptyMap
    /\ today = 0
    /\ db_faults = FALSE
    /\ output_ok = TRUE
    /\ InitWorker

\* tenant t1 with both folders configured; file x can be in both of them (a
\* Drive file may have several parents, and two folder_config rows may name
\* the same Drive folder)
InitCross ==
    /\ tenants = [t \in {"t1"} |-> NewTenantRow(TRUE)]
    /\ folder_config = [tf \in {"t1"} \X DefaultFolders |-> ConfiguredFolder]
    /\ drive = [tf \in AllFolders |-> IF tf[1] = "t1" THEN {"x"} ELSE {}]
    /\ sync_data = EmptyMap
    /\ today = 0
    /\ db_faults = FALSE
    /\ output_ok = TRUE
    /\ InitWorker

Next ==
    \/ RunSyncCycle
    \/ SyncTenant
    \/ SyncTenantFolder_List
    \/ ProcessFile
    \/ SyncTenantFolder_Finish
    \/ SyncTenant_Count
    \/ SyncTenant_Return
    \/ RetryFailedFiles
    \/ RetryFile
    \/ Sleep

Spec == Init /\ [][Next]_vars

SpecCross == InitCross /\ [][Next]_vars

(* --------------------- tenant registration (add_tenant) --------------- *)

\* add_tenant: db.create_tenant(...) with the answers of the operator;
\* fault is the statement of the transaction that the database fails on
CreateTenant ==
    /\ \E key \in TenantKeys, has_service \in BOOLEAN,
          fault \in {NULL, "insert", "folders"} :
         LET r == create_tenant(tenants, folder_config, key, has_service, fault) IN
         /\ tenants' = r.tenants
         /\ folder_config' = r.folder_config
         /\ create_result' =
               [key |-> key, fault |-> fault,
                existed |-> key \in DOMAIN tenants,
                raised |-> r.raised, ret |-> r.ret,
                unchanged |-> (r.tenants = tenants /\ r.folder_config = folder_config),
                dup_rets |-> IF r.raised = "UniqueViolation"
                             THEN create_result.dup_rets \cup {r.ret}
                             ELSE create_result.dup_rets,
                other_rets |-> IF r.raised = "DatabaseError"
                               THEN create_result.other_rets \cup {r.ret}
                               ELSE create_result.other_rets]
    /\ UNCHANGED <<passVars, sync_data, cycle_log, published, today, drive, workerVars,
                   last_call, histVars, poolVars>>

\* an empty store; tenants are registered while the worker runs
InitTenant ==
    /\ tenants = EmptyMap
    /\ folder_config = EmptyMap
    /\ drive = [tf \in AllFolders |-> {}]
    /\ sync_data = EmptyMap
    /\ today = 0
    /\ db_faults = FALSE
    /\ output_ok = TRUE
    /\ InitWorker

NextTenant ==
    \/ CreateTenant
    \/ RunSyncCycle
    \/ SyncTenant
    \/ SyncTenantFolder_List
    \/ SyncTenant_Count
    \/ SyncTenant_Return
    \/ RetryFailedFiles
    \/ Sleep

SpecTenant == InitTenant /\ [][NextTenant]_vars

(* ------------------- startup and shutdown (main, run) ----------------- *)

\* main: MultiTenantSyncWorker() that ignores a failed pool construction
Main_IgnoreFailure ==
    /\ pc = "main"
    /\ \E constructed \in BOOLEAN :
         /\ pool' = IF constructed THEN "open" ELSE "failed"
         /\ pc' = "cycle_start"
    /\ UNCHANGED <<passVars, storeVars, today, drive, drive_services, tenants_todo,
                   folders_todo, counts, folder_result, files, files_todo,
                   synced_file_ids, retry_todo, callVars, histVars,
                   checked_out, tx, db_faults, write_failed>>

\* main: MultiTenantSyncWorker() builds the connection pool and worker.run()
\* starts the loop; when ThreadedConnectionPool raises, __init__ re-raises
\* and main exits with status 1
Main ==
    /\ pc = "main"
    /\ \E constructed \in BOOLEAN :
         /\ pool' = IF constructed THEN "open" ELSE "failed"
         /\ pc' = IF constructed THEN "cycle_start" ELSE "exit"
    /\ UNCHANGED <<passVars, storeVars, today, drive, drive_services, tenants_todo,
                   folders_todo, counts, folder_result, files, files_todo,
                   synced_file_ids, retry_todo, callVars, histVars,
                   checked_out, tx, db_faults, write_failed>>

\* positions of run() inside run_sync_cycle
PassPositions == {"cycle_start", "tenant", "folder", "file", "folder_ret", "retry"}

\* run: KeyboardInterrupt is raised in run_sync_cycle or in time.sleep; no
\* handler below run() catches it, the loop breaks and the finally clause
\* closes the pool; the process ends and its locals are gone
Interrupt ==
    /\ pc \in PassPositions \cup {"sleep", "error_sleep"}
    /\ pc' = "stopped"
    /\ pool' = "closed"
    /\ drive_services' = {}
    /\ tenants_todo' = <<>>
    /\ folders_todo' = <<>>
    /\ counts' = [success |-> 0, error |-> 0]
    /\ folder_result' = FALSE
    /\ files' = EmptyMap
    /\ files_todo' = {}
    /\ synced_file_ids' = {}
    /\ retry_todo' = {}
    /\ listed' = EmptyMap
    /\ list_failed' = {}
    /\ parsed_ok' = {}
    /\ parse_failed' = {}
    /\ retry_ok' = {}
    /\ fail_active' = [tf \in AllFolders |-> {}]
    /\ heal_due' = [tf \in AllFolders |-> {}]
    /\ write_failed' = {}
    /\ pass_log' = NoPass
    /\ retry_start' = EmptyMap
    /\ UNCHANGED <<output_ok, storeVars, today, drive, callVars, checked_out, tx,
                   db_faults>>

\* a folder the operator has disabled
DisabledFolder == [enabled |-> FALSE, drive_folder_id |-> NULL, last_check |-> NoDay]

\* before main(): tenant t1 with folder f1 configured (file x can be in it)
\* and folder f2 without a Drive folder id, tenant t2 with no enabled folder
InitMain ==
    /\ tenants = [t \in TenantKeys |-> NewTenantRow(TRUE)]
    /\ folder_config = [tf \in AllFolders |->
                           IF tf = <<"t1", "f1">> THEN ConfiguredFolder
                           ELSE IF tf[1] = "t1" THEN DefaultFolder
                           ELSE DisabledFolder]
    /\ drive = [tf \in AllFolders |-> IF tf = <<"t1", "f1">> THEN {"x"} ELSE {}]
    /\ sync_data = EmptyMap
    /\ today = 0
    /\ db_faults = FALSE
    /\ cycle_log = <<>>
    /\ published = EmptyMap
    /\ pc = "main"
    /\ drive_services = {}
    /\ tenants_todo = <<>>
    /\ folders_todo = <<>>
    /\ counts = [success |-> 0, error |-> 0]
    /\ folder_result = FALSE
    /\ files = EmptyMap
    /\ files_todo = {}
    /\ synced_file_ids = {}
    /\ retry_todo = {}
    /\ create_result = NoCreate
    /\ last_call = NoCall
    /\ listed = EmptyMap
    /\ list_failed = {}
    /\ parsed_ok = {}
    /\ parse_failed = {}
    /\ retry_ok = {}
    /\ fail_active = [tf \in AllFolders |-> {}]
    /\ heal_due = [tf \in AllFolders |-> {}]
    /\ pool = "none"
    /\ checked_out = 0
    /\ tx = NoTx
    /\ write_failed = {}
    /\ output_ok = TRUE
    /\ pass_log = NoPass
    /\ retry_start = EmptyMap

NextMain ==
    \/ Main
    \/ Interrupt
    \/ RunSyncCycle
    \/ SyncTenant
    \/ SyncTenantFolder_List
    \/ ProcessFile
    \/ SyncTenantFolder_Finish
    \/ SyncTenant_Count
    \/ SyncTenant_Return
    \/ RetryFailedFiles
    \/ RetryFile
    \/ Sleep

SpecMain == InitMain /\ [][NextMain]_vars

(* --------------------- a database that fails statements --------------- *)

\* as Init, on the last day of the clock, with a database that may fail the
\* statement of any write to sync_data
InitFault ==
    /\ tenants = [t \in {"t1"} |-> NewTenantRow(TRUE)]
    /\ folder_config = [tf \in {"t1"} \X DefaultFolders |->
                           IF tf[2] = "f1" THEN ConfiguredFolder ELSE DefaultFolder]
    /\ drive = [tf \in AllFolders |-> IF tf = <<"t1", "f1">> THEN {"x", "y"} ELSE {}]
    /\ sync_data = EmptyMap
    /\ today = MaxDay
    /\ db_faults = TRUE
    /\ output_ok = TRUE
    /\ InitWorker

SpecFault == InitFault /\ [][Next]_vars

(* ------------- the sync_data operations, called one by one ------------ *)

\* number of calls made on a store
MaxCalls == 2

DbKeys == {<<"t1", "f1", "x">>, <<"t1", "f2", "x">>}

\* the rows a store can hold before the calls
DbRows ==
    [status : {"active", "deleted", "error"}, error_message : {NULL, MsgParse},
     retry_count : 0..MaxRetryCount, last_synced : {0}, data : {0}]

StatusOf(sd, k) == IF k \in DOMAIN sd THEN sd[k].status ELSE "absent"

\* the record of a call: repeat tells that the call before it was the same
\* call, first_was the status of the row before the first of these calls
Call(op, t, f, x, data, msg, inc) ==
    LET c == [op |-> op, tenant_id |-> t, folder_name |-> f, file_id |-> x,
              data |-> data, msg |-> msg, inc |-> inc, day |-> today]
        same == /\ last_call.op # NULL
                /\ [n \in DOMAIN c |-> last_call[n]] = c
    IN [n \in DOMAIN c \cup {"seq", "repeat", "first_was"} |->
           IF n = "seq" THEN last_call.seq + 1
           ELSE IF n = "repeat" THEN same
           ELSE IF n = "first_was"
                THEN IF same THEN last_call.first_was
                     ELSE StatusOf(sync_data, <<t, f, x>>)
           ELSE c[n]]

DbInsertSyncData ==
    /\ last_call.seq < MaxCalls
    /\ \E k \in DbKeys, data \in 0..today :
         /\ sync_data' = insert_sync_data(sync_data, k[1], k[2], k[3], data, today)
         /\ last_call' = Call("insert_sync_data", k[1], k[2], k[3], data, NULL, FALSE)
    /\ UNCHANGED <<passVars, tenants, folder_config, cycle_log, published, today, drive,
                   workerVars, create_result, histVars, poolVars>>

DbMarkFileError ==
    /\ last_call.seq < MaxCalls
    /\ \E x \in {"x"}, t \in {"t1", NULL}, inc \in BOOLEAN :
         /\ inc => MayFail(sync_data, x, t)
         /\ sync_data' = mark_file_error(sync_data, x, MsgProcessing, inc, t, today)
         /\ last_call' = Call("mark_file_error", t, NULL, x, NoDay, MsgProcessing, inc)
    /\ UNCHANGED <<passVars, tenants, folder_config, cycle_log, published, today, drive,
                   workerVars, create_result, histVars, poolVars>>

DbMarkFileDeleted ==
    /\ last_call.seq < MaxCalls
    /\ \E x \in {"x"}, t \in {"t1", NULL} :
         /\ sync_data' = mark_file_deleted(sync_data, x, t, today)
         /\ last_call' = Call("mark_file_deleted", t, NULL, x, NoDay, NULL, FALSE)
    /\ UNCHANGED <<passVars, tenants, folder_config, cycle_log, published, today, drive,
                   workerVars, create_result, histVars, poolVars>>

\* any store over DbKeys, on any day
InitDb ==
    /\ tenants = [t \in {"t1"} |-> NewTenantRow(TRUE)]
    /\ folder_config = [tf \in {"t1"} \X DefaultFolders |-> ConfiguredFolder]
    /\ drive = [tf \in AllFolders |-> IF tf[1] = "t1" THEN {"x"} ELSE {}]
    /\ sync_data \in UNION {[S -> DbRows] : S \in SUBSET DbKeys}
    /\ today \in Days
    /\ db_faults = FALSE
    /\ output_ok = TRUE
    /\ InitWorker

NextDb ==
    \/ DbInsertSyncData
    \/ DbMarkFileError
    \/ DbMarkFileDeleted

SpecDb == InitDb /\ [][NextDb]_vars

(* ------------- get_connection, statement by statement ----------------- *)

\* self.pool.getconn()
getconn(n) == n + 1

\* a finally clause that puts the connection back only when nothing was raised
finally_putconn_OnSuccess(n, raised) ==
    IF raised = NULL THEN n - 1 ELSE n

\* finally: self.pool.putconn(conn), whatever was raised
finally_putconn(n, raised) ==
    n - 1

\* a store operation enters get_connection: conn = self.pool.getconn()
GetConn ==
    /\ pc # "stopped"
    /\ tx.op = NULL
    /\ last_call.seq < MaxCalls
    /\ checked_out' = getconn(checked_out)
    /\ \E k \in DbKeys, op \in {"insert_sync_data", "mark_file_error",
                                 "mark_file_deleted"} :
         /\ op = "mark_file_error" => MayFail(sync_data, k[3], k[1])
         /\ tx' = [op |-> op, exits |-> tx.exits, at |-> "yield", raised |-> NULL,
                   work |-> IF op = "insert_sync_data"
                            THEN insert_sync_data(sync_data, k[1], k[2], k[3],
                                                  today, today)
                            ELSE IF op = "mark_file_error"
                            THEN mark_file_error(sync_data, k[3], MsgProcessing,
                                                 TRUE, k[1], today)
                            ELSE mark_file_deleted(sync_data, k[3], k[1], today)]
         /\ last_call' = Call(op, k[1], k[2], k[3], today, NULL, FALSE)
    /\ UNCHANGED <<passVars, storeVars, today, drive, workerVars, create_result, histVars,
                   pool, db_faults, write_failed>>

\* yield conn: the body of the with block executes its statement; it
\* returns, raises an Exception, or is interrupted (KeyboardInterrupt)
Yield ==
    /\ tx.op # NULL
    /\ tx.at = "yield"
    /\ \E outcome \in {"return", "Exception", "KeyboardInterrupt"} :
         /\ outcome = "Exception" => db_faults
         /\ tx' = [tx EXCEPT !.at = IF outcome = "return" THEN "commit"
                                    ELSE IF outcome = "Exception" THEN "except"
                                    ELSE "finally",
                             !.raised = IF outcome = "return" THEN NULL ELSE outcome]
    /\ UNCHANGED <<passVars, storeVars, today, drive, workerVars, callVars, histVars, pool,
                   checked_out, db_faults, write_failed>>

\* conn.commit(): the work of the transaction becomes the store; a commit
\* that raises goes to the except clause
Commit ==
    /\ tx.op # NULL
    /\ tx.at = "commit"
    /\ \E raised \in Faults :
         IF raised
         THEN /\ tx' = [tx EXCEPT !.at = "except", !.raised = "Exception"]
              /\ UNCHANGED sync_data
         ELSE /\ tx' = [tx EXCEPT !.at = "finally"]
              /\ sync_data' = tx.work
    /\ UNCHANGED <<passVars, tenants, folder_config, cycle_log, published, today, drive,
                   workerVars, callVars, histVars, pool, checked_out, db_faults,
                   write_failed>>

\* except Exception: conn.rollback(); raise
Rollback ==
    /\ tx.op # NULL
    /\ tx.at = "except"
    /\ tx' = [tx EXCEPT !.at = "finally"]
    /\ UNCHANGED <<passVars, storeVars, today, drive, workerVars, callVars, histVars, pool,
                   checked_out, db_faults, write_failed>>

\* finally: self.pool.putconn(conn); the operation catches an Exception and
\* returns False, a KeyboardInterrupt ends run() and the pool is closed
PutConn ==
    /\ tx.op # NULL
    /\ tx.at = "finally"
    /\ checked_out' = finally_putconn(checked_out, tx.raised)
    /\ tx' = [op |-> NULL,
              exits |-> tx.exits \cup {IF tx.raised = NULL THEN "commit"
                                       ELSE IF tx.raised = "Exception" THEN "rollback"
                                       ELSE "interrupt"}]
    /\ IF tx.raised = "KeyboardInterrupt"
       THEN pc' = "stopped" /\ pool' = "closed"
       ELSE UNCHANGED <<pc, pool>>
    /\ UNCHANGED <<passVars, storeVars, today, drive, drive_services, tenants_todo,
                   folders_todo, counts, folder_result, files, files_todo,
                   synced_file_ids, retry_todo, callVars, histVars, db_faults,
                   write_failed>>

\* any store over DbKeys, with a database that may fail statements
InitConn ==
    /\ tenants = [t \in {"t1"} |-> NewTenantRow(TRUE)]
    /\ folder_config = [tf \in {"t1"} \X DefaultFolders |-> ConfiguredFolder]
    /\ drive = [tf \in AllFolders |-> IF tf[1] = "t1" THEN {"x"} ELSE {}]
    /\ sync_data \in UNION {[S -> DbRows] : S \in SUBSET DbKeys}
    /\ today = 0
    /\ db_faults = TRUE
    /\ output_ok = TRUE
    /\ InitWorker

NextConn ==
    \/ GetConn
    \/ Yield
    \/ Commit
    \/ Rollback
    \/ PutConn

SpecConn == InitConn /\ [][NextConn]_vars

(* ------------------- the run loop and its handlers -------------------- *)

\* a row in error from an earlier cycle
ErrorRow == [NewSyncRow(0, 0) EXCEPT !.status = "error",
                                      !.error_message = MsgParse]

\* SYNC_CONFIG['poll_interval'] and SYNC_CONFIG['retry_delay'], in seconds
poll_interval == 300
retry_delay == 60

\* the argument of the time.sleep the run loop is in, 0 when it is in none
SleepTime ==
    IF pc = "sleep" THEN poll_interval
    ELSE IF pc = "error_sleep" THEN retry_delay
    ELSE 0

\* run, "except Exception": time.sleep(retry_delay) after a cycle that raised
ErrorSleep ==
    /\ pc = "error_sleep"
    /\ \E d \in {today, today + 1} \cap Days : today' = d
    /\ pc' = "cycle_start"
    /\ cycle_log' = <<>>
    /\ listed' = EmptyMap
    /\ list_failed' = {}
    /\ retry_ok' = {}
    /\ heal_due' = [tf \in AllFolders |-> {}]
    /\ pass_log' = NoPass
    /\ retry_start' = EmptyMap
    /\ UNCHANGED <<output_ok, tenants, folder_config, sync_data, published, drive,
                   drive_services, tenants_todo, folders_todo, counts,
                   folder_result, files, files_todo, synced_file_ids,
                   retry_todo, callVars, poolVars, parsed_ok, parse_failed,
                   fail_active>>

SyncTenant_Raises_Abort ==
    /\ pc \in {"folder", "folder_ret"}
    /\ tenants_todo # <<>>
    /\ tenants_todo' = <<>>
    /\ folders_todo' = <<>>
    /\ pc' = run_after_cycle("raised")
    /\ pass_log' = [pass_log EXCEPT !.raised = @ \cup {cur_tenant},
                                    !.outcome = "raised"]
    /\ UNCHANGED <<output_ok, retry_start, storeVars, today, drive,
                   drive_services, counts, folder_result, files, files_todo,
                   synced_file_ids, retry_todo, callVars, poolVars, histVars>>

\* run_sync_cycle, "except Exception" around sync_tenant: an exception that
\* leaves sync_tenant between two folders (the errors of the store and of
\* Drive are caught further in and never get here) is logged, and the loop
\* goes on with the next tenant
SyncTenant_Raises ==
    /\ pc \in {"folder", "folder_ret"}
    /\ tenants_todo # <<>>
    /\ tenants_todo' = Tail(tenants_todo)
    /\ folders_todo' = <<>>
    /\ pc' = "tenant"
    /\ counts' = [success |-> 0, error |-> 0]
    /\ folder_result' = FALSE
    /\ files' = EmptyMap
    /\ files_todo' = {}
    /\ synced_file_ids' = {}
    /\ parsed_ok' = {}
    /\ parse_failed' = {}
    /\ write_failed' = {}
    /\ pass_log' = [pass_log EXCEPT !.raised = @ \cup {cur_tenant}]
    /\ UNCHANGED <<output_ok, retry_start, storeVars, today, drive,
                   drive_services, retry_todo, callVars, connVars, listed,
                   list_failed, retry_ok, fail_active, heal_due>>

\* tenants t1 and t2, both with folder f1 configured: the Drive folder of
\* t1 is empty, file x can be in that of t2, and its row was left in error by
\* an earlier run; folder f2 of t1 has no Drive folder id, folder f2 of t2 is
\* switched off; the output directories can be made, or not; the cycles run
\* on one day
InitRun ==
    /\ tenants = [t \in TenantKeys |-> NewTenantRow(TRUE)]
    /\ folder_config = [tf \in AllFolders |->
                           IF tf[2] = "f1" THEN ConfiguredFolder
                           ELSE IF tf[1] = "t1" THEN DefaultFolder
                           ELSE DisabledFolder]
    /\ drive = [tf \in AllFolders |-> IF tf = <<"t2", "f1">> THEN {"x"} ELSE {}]
    /\ sync_data = [k \in {<<"t2", "f1", "x">>} |-> ErrorRow]
    /\ today = MaxDay
    /\ db_faults = FALSE
    /\ output_ok \in BOOLEAN
    /\ InitWorker

NextRun ==
    \/ Next
    \/ ErrorSleep
    \/ SyncTenant_Raises

SpecRun == InitRun /\ [][NextRun]_vars

(* ------------------ two tenants with the same file ------------------- *)

\* tenants t1 and t2, both with folder f1 configured and the same file id x
\* in it, folder f2 switched off; the cycles run on one day
InitTwo ==
    /\ tenants = [t \in TenantKeys |-> NewTenantRow(TRUE)]
    /\ folder_config = [tf \in AllFolders |->
                           IF tf[2] = "f1" THEN ConfiguredFolder
                           ELSE DisabledFolder]
    /\ drive = [tf \in AllFolders |-> IF tf[2] = "f1" THEN {"x"} ELSE {}]
    /\ sync_data = EmptyMap
    /\ today = MaxDay
    /\ db_faults = FALSE
    /\ output_ok = TRUE
    /\ InitWorker

SpecTwo == InitTwo /\ [][Next]_vars

(* ----------------- tenants and folders switched off ------------------- *)

\* tenant t1 with folder f1 configured (file x can be in it) and
\* folder f2 switched off; tenant t2 switched off; file y of t1/f2 and file x
\* of t2/f1 were left in error before the operator switched them off
InitDisabled ==
    /\ tenants = [t \in TenantKeys |->
                     [NewTenantRow(TRUE) EXCEPT !.sync_enabled = (t = "t1")]]
    /\ folder_config = [tf \in AllFolders |->
                           [ConfiguredFolder EXCEPT !.enabled = (tf[2] = "f1")]]
    /\ drive = [tf \in AllFolders |-> IF tf = <<"t1", "f1">> THEN {"x"} ELSE {}]
    /\ sync_data = [k \in {<<"t1", "f2", "y">>, <<"t2", "f1", "x">>} |-> ErrorRow]
    /\ today = 0
    /\ db_faults = FALSE
    /\ output_ok = TRUE
    /\ InitWorker

SpecDisabled == InitDisabled /\ [][Next]_vars

(* ------------------------------ claims -------------------------------- *)

\* C1 (Spec): when a cycle is complete, for every folder that was listed in
\* it, the file ids of the Active rows of the folder are exactly the file
\* ids the listing returned.
C1_DeletionByAbsence ==
    pc = "sleep" =>
        \A tf \in DOMAIN listed :
            ActiveIds(sync_data, tf[1], tf[2]) = listed[tf]

\* C2 (Spec): the step that ends the sync of a folder whose listing call
\* failed changes the status of no row of the folder, does not write the
\* folder's component HTML, and appends an error row for the folder to
\* sync_log; the worker then goes on with the next folder.
C2_ListingFailureSkipsFolder ==
    [][(pc = "file" /\ <<cur_tenant, cur_folder>> \in list_failed) =>
          /\ \A k \in DOMAIN sync_data :
                (k[1] = cur_tenant /\ k[2] = cur_folder) =>
                    StatusOf(sync_data', k) = sync_data[k].status
          /\ published' = published
          /\ \E i \in DOMAIN cycle_log' :
                /\ cycle_log'[i].status = "error"
                /\ cycle_log'[i].tenant_id = cur_tenant
                /\ cycle_log'[i].folder_name = cur_folder
          /\ pc' = "folder_ret"]_vars

\* C3 (Spec): when a cycle is complete, every file that was Active when the
\* listing of its folder failed in the cycle before, and that this cycle's
\* listing returned with the modification time it was stored with, is Active.
C3_ListingFailureSelfHeals ==
    pc = "sleep" =>
        \A tf \in AllFolders : \A x \in heal_due[tf] :
            StatusOf(sync_data, <<tf[1], tf[2], x>>) = "active"

\* C4 (Spec): when sync_tenant_folder returns from a listing of which
\* exactly one file failed to parse and all others were parsed, the failing
\* file has a row with status error, retry_count 1 and an error_message, the
\* other files have Active rows, and the folder's sync_log row says success.
C4_PartialFailureIsolation ==
    (/\ pc = "folder_ret"
     /\ folder_result
     /\ Cardinality(parse_failed) = 1
     /\ parsed_ok = DOMAIN files \ parse_failed) =>
        /\ \A x \in parse_failed :
              LET k == <<cur_tenant, cur_folder, x>> IN
              /\ k \in DOMAIN sync_data
              /\ sync_data[k].status = "error"
              /\ sync_data[k].retry_count = 1
              /\ sync_data[k].error_message # NULL
        /\ \A x \in parsed_ok :
              StatusOf(sync_data, <<cur_tenant, cur_folder, x>>) = "active"
        /\ cycle_log # <<>>
        /\ cycle_log[Len(cycle_log)].status = "success"
        /\ cycle_log[Len(cycle_log)].folder_name = cur_folder

\* C5 (SpecDb): a call of insert_sync_data leaves one row for its key, with
\* status active, retry_count 0, no error_message and the data given, and
\* leaves the other rows alone, whatever the row was before; and a call that
\* repeats the call before it changes nothing.
C5_UpsertIdempotent ==
    [][(last_call'.seq # last_call.seq /\ last_call'.op = "insert_sync_data") =>
          LET c == last_call'
              k == <<c.tenant_id, c.folder_name, c.file_id>>
          IN /\ DOMAIN sync_data' = DOMAIN sync_data \cup {k}
             /\ sync_data'[k].status = "active"
             /\ sync_data'[k].retry_count = 0
             /\ sync_data'[k].error_message = NULL
             /\ sync_data'[k].data = c.data
             /\ \A j \in DOMAIN sync_data \ {k} : sync_data'[j] = sync_data[j]
             /\ c.repeat => sync_data' = sync_data]_vars

\* insert_sync_data applied twice with the same inputs to a row in error
C5_Witness ==
    /\ last_call.op = "insert_sync_data"
    /\ last_call.repeat
    /\ last_call.first_was = "error"
    /\ sync_data[<<last_call.tenant_id, last_call.folder_name,
                   last_call.file_id>>].retry_count = 0

\* C6 (SpecCross): get_files_needing_retry returns only rows with status
\* error and retry_count < max_retries, and the retry pass never fetches and
\* parses the file of a row whose retry_count has reached max_retries.
C6_RetryCeiling ==
    /\ [](\A k \in get_files_needing_retry(sync_data, max_retries, NULL) :
             sync_data[k].status = "error" /\ sync_data[k].retry_count < max_retries)
    /\ [][\A k \in Keys :
             (pc = "retry" /\ k \in retry_todo /\ k \notin retry_todo') =>
                 sync_data[k].retry_count < max_retries]_vars

\* a row in error is written by a successful processing of its file: by an
\* iteration of the retry pass, or by an iteration of the folder sync
Reprocessed(k) ==
    \/ pc = "retry" /\ k \in retry_ok' \ retry_ok
    \/ /\ pc = "file"
       /\ k = <<cur_tenant, cur_folder, k[3]>>
       /\ k[3] \in parsed_ok' \ parsed_ok

\* C7 (Spec): a step that reprocesses a row in error successfully leaves the
\* row with status active, retry_count 0 and no error_message.
C7_ErrorRecovery ==
    [][\A k \in Keys :
          (StatusOf(sync_data, k) = "error" /\ Reprocessed(k)) =>
              /\ sync_data'[k].status = "active"
              /\ sync_data'[k].retry_count = 0
              /\ sync_data'[k].error_message = NULL]_vars

\* the retry pass has brought a row in error back to active
C7_Witness ==
    \E k \in retry_ok :
        /\ sync_data[k].status = "active"
        /\ sync_data[k].retry_count = 0
        /\ sync_data[k].error_message = NULL

\* the status changes the data model allows
AllowedTransitions ==
    {<<"absent", "active">>, <<"active", "deleted">>, <<"active", "error">>,
     <<"error", "error">>, <<"error", "active">>}

\* C8 (Spec): every step that changes the status of a content record makes
\* one of the allowed changes; no row leaves status deleted and no row is
\* created with status error or deleted.
C8_StatusTransitions ==
    [][\A k \in Keys :
          StatusOf(sync_data', k) # StatusOf(sync_data, k) =>
              <<StatusOf(sync_data, k), StatusOf(sync_data', k)>> \in AllowedTransitions]_vars

\* C9 (SpecTenant): in every state of the store a tenant row exists exactly
\* when its default folder_config rows exist, and a create_tenant call that
\* raised has changed neither table.
C9_TenantCreationAtomic ==
    /\ \A t \in TenantKeys :
          (t \in DOMAIN tenants) <=>
              (\A f \in DefaultFolders : <<t, f>> \in DOMAIN folder_config)
    /\ \A tf \in DOMAIN folder_config : tf[1] \in DOMAIN tenants
    /\ create_result.raised # NULL => create_result.unchanged

\* the folder initialisation of a new tenant failed and the tenant is not there
C9_Witness ==
    /\ create_result.fault = "folders"
    /\ ~create_result.existed
    /\ create_result.raised # NULL
    /\ create_result.key \notin DOMAIN tenants

\* C10 as claimed (SpecTenant): create_tenant for a tenant_key that exists
\* leaves both tables unchanged and fails in a way no other creation failure
\* does: what it returns is never returned for another failure.
C10_DuplicateDistinguishable ==
    create_result.existed =>
        /\ create_result.unchanged
        /\ create_result.ret = NULL
        /\ create_result.dup_rets \cap create_result.other_rets = {}

\* C10 as amended (SpecTenant): create_tenant for a tenant_key that exists
\* leaves both tables unchanged and returns None, which is also what every
\* other creation failure returns.
C10_DuplicateRejected ==
    /\ create_result.existed =>
          /\ create_result.raised = "UniqueViolation"
          /\ create_result.unchanged
          /\ create_result.ret = NULL
    /\ create_result.dup_rets \cup create_result.other_rets \subseteq {NULL}

\* create_tenant was called for an existing key after another creation failed
C10_Witness ==
    /\ create_result.existed
    /\ create_result.ret = NULL
    /\ create_result.other_rets # {}

\* C11 (SpecConn): a store operation holds exactly one connection of the
\* pool while it is in get_connection, and none is checked out between two
\* operations, however the operation before left get_connection (commit,
\* rollback after an exception, interrupt).
C11_ConnectionRelease ==
    /\ checked_out \in {0, 1}
    /\ tx.op = NULL => checked_out = 0
    /\ tx.op # NULL => checked_out = 1

\* one operation was rolled back, the next was interrupted, and no
\* connection is checked out
C11_Witness ==
    /\ tx.op = NULL
    /\ tx.exits = {"rollback", "interrupt"}
    /\ checked_out = 0

\* C12 (SpecFault): a write to sync_data that raises in its transaction
\* leaves the store as it was; the folder sync goes on with the next file, a
\* file upserted after the failure gets its Active row with the data of the
\* listing, and the deletions that did not fail are made.
C12_FailedWriteIsolated ==
    /\ [][\A x \in write_failed' \ write_failed :
             /\ DOMAIN sync_data' = DOMAIN sync_data
             /\ \A k \in DOMAIN sync_data :
                   k[3] = x => sync_data'[k] = sync_data[k]
             /\ x \in files_todo =>
                   /\ sync_data' = sync_data
                   /\ pc' = "file"
                   /\ files_todo' = files_todo \ {x}]_vars
    /\ [][(pc = "file" /\ write_failed # {}) =>
             /\ \A x \in parsed_ok' \ parsed_ok :
                   LET k == <<cur_tenant, cur_folder, x>> IN
                   /\ k \in DOMAIN sync_data'
                   /\ sync_data'[k] = NewSyncRow(files[x], today)
             /\ pc' = "folder_ret" =>
                   \A x \in (ActiveIds(sync_data, cur_tenant, cur_folder)
                                \ synced_file_ids) \ write_failed' :
                       sync_data'[<<cur_tenant, cur_folder, x>>].status = "deleted"]_vars

\* a folder sync has ended in which the write of one file raised and another
\* file was upserted
C12_Witness ==
    /\ pc = "folder_ret"
    /\ folder_result
    /\ write_failed # {}
    /\ parsed_ok # {}
    /\ \A x \in parsed_ok :
          StatusOf(sync_data, <<cur_tenant, cur_folder, x>>) = "active"

\* C13 (Spec): when sync_tenant_folder has returned for a folder, sync_log
\* holds exactly one sync_folder row of this cycle for the folder.
C13_OneLogEntryPerFolder ==
    pc = "folder_ret" =>
        Cardinality({i \in DOMAIN cycle_log :
                        /\ cycle_log[i].operation = "sync_folder"
                        /\ cycle_log[i].tenant_id = cur_tenant
                        /\ cycle_log[i].folder_name = cur_folder}) = 1

\* C14 (Spec): when a cycle is complete, the component HTML of every folder
\* synced in it holds exactly the files whose rows are Active for the folder.
C14_PublishedIsActive ==
    pc = "sleep" =>
        \A tf \in DOMAIN listed :
            /\ tf \in DOMAIN published
            /\ published[tf] = ActiveIds(sync_data, tf[1], tf[2])

\* C15 (SpecMain): sync_tenant for a tenant none of whose folders is enabled
\* returns with success 0 and error 0, appends nothing to sync_log and
\* changes no row of sync_data.
C15_NoEnabledFolders ==
    [][(/\ pc = "tenant"
        /\ tenants_todo # <<>>
        /\ pc' # "stopped"
        /\ \A f \in DefaultFolders :
              <<cur_tenant, f>> \in DOMAIN folder_config =>
                  ~folder_config[<<cur_tenant, f>>].enabled) =>
          /\ pc' = "tenant"
          /\ tenants_todo' = Tail(tenants_todo)
          /\ counts' = [success |-> 0, error |-> 0]
          /\ cycle_log' = cycle_log
          /\ sync_data' = sync_data]_vars

\* sync_tenant has returned for tenant t2, which has no enabled folder
C15_Witness ==
    /\ pc = "tenant"
    /\ tenants_todo = <<>>
    /\ tenants["t2"].sync_enabled
    /\ \A f \in DefaultFolders : ~folder_config[<<"t2", f>>].enabled
    /\ counts = [success |-> 0, error |-> 0]

\* C16 (SpecMain): when the construction of the connection pool has failed,
\* the process has exited and no cycle was started: nothing was listed,
\* logged, published or written to the store.
C16_PoolFailureAborts ==
    pool = "failed" =>
        /\ pc = "exit"
        /\ tenants_todo = <<>>
        /\ listed = EmptyMap
        /\ cycle_log = <<>>
        /\ published = EmptyMap
        /\ sync_data = EmptyMap
        /\ \A t \in DOMAIN tenants : tenants[t].last_synced = NoDay
        /\ \A tf \in DOMAIN folder_config : folder_config[tf].last_check = NoDay

\* the pool could not be constructed and main has exited
C16_Witness ==
    /\ pool = "failed"
    /\ pc = "exit"

\* C17 (SpecMain): an interrupt never ends the run while a pass is in
\* progress; the run ends only from the sleep between two cycles, and the
\* pool is closed then.
C17_CoarseCancellation ==
    [][/\ pc \in PassPositions => pc' # "stopped"
       /\ (pc # "stopped" /\ pc' = "stopped") => (pc = "sleep" /\ pool' = "closed")]_vars

\* C18 (SpecDb): a call of mark_file_deleted sets the status of the rows of
\* the given file to deleted and changes no other field and no other row.
C18_MarkDeletedStatusOnly ==
    [][(last_call'.seq # last_call.seq /\ last_call'.op = "mark_file_deleted") =>
          /\ DOMAIN sync_data' = DOMAIN sync_data
          /\ \A k \in DOMAIN sync_data :
                sync_data'[k] =
                    IF MatchesFile(k, last_call'.file_id, last_call'.tenant_id)
                    THEN [sync_data[k] EXCEPT !.status = "deleted"]
                    ELSE sync_data[k]]_vars

\* C19 (SpecCross): no step removes a row of sync_data, and an upsert adds at most
\* the row of its own key.
C19_NoPhysicalDelete ==
    [][/\ DOMAIN sync_data \subseteq DOMAIN sync_data'
       /\ Cardinality(DOMAIN sync_data') <= Cardinality(DOMAIN sync_data) + 1
       /\ pc = "file" =>
             \A x \in parsed_ok' \ parsed_ok :
                 DOMAIN sync_data' = DOMAIN sync_data
                                     \cup {<<cur_tenant, cur_folder, x>>}]_vars

\* a file was marked deleted in a cycle and its row is still in the store
C19_Witness ==
    /\ pc = "sleep"
    /\ \E k \in DOMAIN sync_data :
          /\ sync_data[k].status = "deleted"
          /\ <<k[1], k[2]>> \in DOMAIN listed
          /\ k[3] \notin listed[<<k[1], k[2]>>]

\* the Active row of a listed file is not older than the file
ActiveAndNotNewer(x) ==
    LET k == <<cur_tenant, cur_folder, x>> IN
    /\ StatusOf(sync_data, k) = "active"
    /\ ~(files[x] > sync_data[k].last_synced)

\* C20 (Spec): an iteration of the folder sync skips its file, leaving the
\* store unchanged, exactly when the file has an Active row and its
\* modification time is not newer than the row's timestamp; in every other
\* case the file is parsed.
C20_ChangeDetection ==
    [][\A x \in files_todo :
          (pc = "file" /\ x \notin files_todo') =>
              LET parsed == x \in (parsed_ok' \cup parse_failed')
                                   \ (parsed_ok \cup parse_failed)
              IN /\ parsed <=> ~ActiveAndNotNewer(x)
                 /\ ~parsed => sync_data' = sync_data]_vars

\* C21 (Spec): a file of the listing that fails to parse, by returning
\* nothing or by raising, does not end the folder sync: the step sets the
\* file's existing rows to error with retry_count one higher, whichever the
\* form, and the loop goes on with the files left; when the folder sync has
\* returned after a listing, every listed file was visited, the files that
\* parsed have Active rows, and the deletion step, the component HTML and the
\* success row of sync_log were done.
C21_FileFailureIsolated ==
    /\ [](pc = "folder_ret" /\ <<cur_tenant, cur_folder>> \in DOMAIN listed =>
            /\ folder_result
            /\ synced_file_ids = DOMAIN files
            /\ \A x \in parsed_ok :
                  StatusOf(sync_data, <<cur_tenant, cur_folder, x>>) = "active"
            /\ ActiveIds(sync_data, cur_tenant, cur_folder) \subseteq DOMAIN files
            /\ <<cur_tenant, cur_folder>> \in DOMAIN published
            /\ published[<<cur_tenant, cur_folder>>]
                  = ActiveIds(sync_data, cur_tenant, cur_folder)
            /\ cycle_log # <<>>
            /\ cycle_log[Len(cycle_log)].status = "success"
            /\ cycle_log[Len(cycle_log)].folder_name = cur_folder)
    /\ [][\A x \in parse_failed' \ parse_failed :
            /\ pc = "file"
            /\ pc' = "file"
            /\ files_todo' = files_todo \ {x}
            /\ \A k \in get_file_by_id(sync_data, x, cur_tenant) :
                  /\ sync_data'[k].status = "error"
                  /\ sync_data'[k].retry_count = sync_data[k].retry_count + 1]_vars

\* a folder sync has returned in which one file failed to parse, leaving an
\* error row, and another file was parsed
C21_Witness ==
    /\ pc = "folder_ret"
    /\ folder_result
    /\ parsed_ok # {}
    /\ \E x \in parse_failed :
          StatusOf(sync_data, <<cur_tenant, cur_folder, x>>) = "error"

\* C22 (Spec): when sync_tenant_folder has returned, every listed file that
\* failed to parse in it has left a trace in the store: a row of the file
\* with status error and an error_message, or an error row of sync_log for
\* the folder.
C22_AnomalyPersisted ==
    pc = "folder_ret" =>
        \A x \in parse_failed :
            \/ LET k == <<cur_tenant, cur_folder, x>> IN
               /\ k \in DOMAIN sync_data
               /\ sync_data[k].status = "error"
               /\ sync_data[k].error_message # NULL
            \/ \E i \in DOMAIN cycle_log :
                  /\ cycle_log[i].status = "error"
                  /\ cycle_log[i].tenant_id = cur_tenant
                  /\ cycle_log[i].folder_name = cur_folder

\* C26 (SpecDb): a call of mark_file_error sets the status of the record of
\* the given file to error and its error_message to the message given, adds
\* one to its retry_count when increment_retry is true and nothing when it
\* is false, and changes no other record: at most one record differs after
\* the call.
C26_MarkErrorOneRecord ==
    [][(last_call'.seq # last_call.seq /\ last_call'.op = "mark_file_error") =>
          LET c == last_call' IN
          /\ DOMAIN sync_data' = DOMAIN sync_data
          /\ \A k \in DOMAIN sync_data :
                MatchesFile(k, c.file_id, c.tenant_id) =>
                    /\ sync_data'[k].status = "error"
                    /\ sync_data'[k].error_message = c.msg
                    /\ sync_data'[k].retry_count =
                          sync_data[k].retry_count + (IF c.inc THEN 1 ELSE 0)
          /\ Cardinality({k \in DOMAIN sync_data :
                             sync_data'[k] # sync_data[k]}) <= 1]_vars

\* C29 (SpecCross): the steps of the sync of folder F of tenant T change
\* only rows of sync_data whose folder_name is F, and whether a listed file
\* is parsed depends on the row of F only: a file without a row in F is
\* parsed.
C29_FolderIsolation ==
    [][(pc = "file" /\ pc' \in {"file", "folder_ret"}) =>
          /\ \A k \in DOMAIN sync_data :
                k[2] # cur_folder => sync_data'[k] = sync_data[k]
          /\ \A x \in files_todo \ files_todo' :
                <<cur_tenant, cur_folder, x>> \notin DOMAIN sync_data =>
                    x \in parsed_ok' \cup parse_failed']_vars

\* C30 (Spec), as claimed: every row of sync_data has
\* 0 <= retry_count <= max_retries.
C30_RetryCountBounded ==
    \A k \in DOMAIN sync_data :
        /\ sync_data[k].retry_count >= 0
        /\ sync_data[k].retry_count <= max_retries

\* C30 (Spec), as the code has it: retry_count is never negative and a step
\* leaves it, resets it to 0 or adds one to it; a failure of the main pass
\* adds one to the retry_count of the file's rows whatever its value, the
\* ceiling included, and a failure of the retry pass adds one to the
\* retry_count of the row it retried.
C30_RetryCountNotCapped ==
    /\ [](\A k \in DOMAIN sync_data : sync_data[k].retry_count >= 0)
    /\ [][/\ \A k \in DOMAIN sync_data :
               sync_data'[k].retry_count \in
                   {0, sync_data[k].retry_count, sync_data[k].retry_count + 1}
          /\ \A x \in parse_failed' \ parse_failed :
               \A k \in get_file_by_id(sync_data, x, cur_tenant) :
                  sync_data'[k].retry_count = sync_data[k].retry_count + 1
          /\ \A k \in retry_todo \ (retry_todo' \cup retry_ok') :
               pc = "retry" =>
                  sync_data'[k].retry_count = sync_data[k].retry_count + 1]_vars

\* a failure of the main pass has taken the retry_count of a row past
\* max_retries
C30_Witness ==
    /\ pc = "file"
    /\ \E x \in parse_failed :
          /\ <<cur_tenant, cur_folder, x>> \in DOMAIN sync_data
          /\ sync_data[<<cur_tenant, cur_folder, x>>].retry_count > max_retries

\* C23 (SpecCross): when a cycle is complete, every record the retry pass
\* selected (status error, retry_count below max_retries) is either Active
\* with retry_count 0, its one retry having succeeded, or in error with
\* retry_count exactly one above what it was when the pass selected it.
C23_OneRetryPerPass ==
    (pass_log.retry /\ pass_log.outcome = "completed") =>
        \A k \in DOMAIN retry_start :
            \/ /\ sync_data[k].status = "active"
               /\ sync_data[k].retry_count = 0
            \/ /\ sync_data[k].status = "error"
               /\ sync_data[k].retry_count = retry_start[k] + 1

\* C24 (SpecDisabled): no step of a cycle, the retry pass included, changes
\* a row of sync_data, folder_config or tenants that belongs to a tenant with
\* sync_enabled false or to a folder with enabled false.
C24_OnlyEnabledTouched ==
    [][/\ \A k \in DOMAIN sync_data :
            (~tenants[k[1]].sync_enabled \/ ~folder_config[<<k[1], k[2]>>].enabled)
                => sync_data'[k] = sync_data[k]
       /\ \A tf \in DOMAIN folder_config :
            (~tenants[tf[1]].sync_enabled \/ ~folder_config[tf].enabled)
                => folder_config'[tf] = folder_config[tf]
       /\ \A t \in DOMAIN tenants :
            ~tenants[t].sync_enabled => tenants'[t] = tenants[t]]_vars

\* the enabled folders of the enabled tenants
EnabledFolders ==
    {tf \in DOMAIN folder_config :
        /\ tf[1] \in DOMAIN tenants
        /\ tenants[tf[1]].sync_enabled
        /\ folder_config[tf].enabled}

\* C25 (SpecRun), as claimed: when run_sync_cycle has returned or raised,
\* every enabled folder of every enabled tenant was visited exactly once in
\* the pass and the run loop is in time.sleep(poll_interval).
C25_PollIntervalAfterEveryPass ==
    pass_log.outcome # "running" =>
        /\ SleepTime = poll_interval
        /\ \A tf \in EnabledFolders : Visits(pass_log, tf) = 1

\* C25 (SpecRun), as the code has it: a pass starts only from a sleep of
\* the run loop, with nothing of the pass before left over; no folder is
\* visited twice in a pass and only enabled folders are visited; when the
\* pass has ended every enabled tenant was visited, and every enabled folder
\* of a tenant whose sync did not raise exactly once; after a pass that
\* returned the loop is in time.sleep(poll_interval), after a pass that
\* raised it is in time.sleep(retry_delay).
C25_CycleCadence ==
    /\ [](/\ \A tf \in DOMAIN pass_log.folders :
               tf \in EnabledFolders /\ pass_log.folders[tf] = 1
          /\ pass_log.outcome = "running" => SleepTime = 0
          /\ pass_log.outcome = "completed" => SleepTime = poll_interval
          /\ pass_log.outcome = "raised" => SleepTime = retry_delay
          /\ pass_log.outcome # "running" =>
                \A tf \in EnabledFolders :
                   /\ tf[1] \in pass_log.tenants
                   /\ tf[1] \notin pass_log.raised => Visits(pass_log, tf) = 1)
    /\ [][(pc' = "cycle_start" /\ pc # "cycle_start") =>
             /\ SleepTime \in {poll_interval, retry_delay}
             /\ pass_log.outcome # "running"
             /\ pass_log' = NoPass]_vars

\* a pass has raised in the retry pass, after the folders of both tenants
\* were visited, and the loop sleeps retry_delay
C25_Witness ==
    /\ pass_log.outcome = "raised"
    /\ pass_log.retry
    /\ pass_log.tenants = TenantKeys
    /\ SleepTime = retry_delay

C28_TenantIsolation ==
    [][/\ (pc \in {"folder", "file", "folder_ret"}) =>
            /\ \A k \in DOMAIN sync_data :
                  k[1] # cur_tenant => sync_data'[k] = sync_data[k]
            /\ \A k \in DOMAIN sync_data' \ DOMAIN sync_data :
                  k[1] = cur_tenant
            /\ \A tf \in DOMAIN folder_config :
                  tf[1] # cur_tenant => folder_config'[tf] = folder_config[tf]
            /\ \A t \in DOMAIN tenants :
                  t # cur_tenant => tenants'[t] = tenants[t]
       /\ (pc = "retry") =>
            /\ \A j \in retry_todo \ retry_todo' :
                  /\ \A k \in DOMAIN sync_data :
                        k[1] # j[1] => sync_data'[k] = sync_data[k]
                  /\ DOMAIN sync_data' \ DOMAIN sync_data \subseteq {j}
            /\ folder_config' = folder_config
            /\ tenants' = tenants]_vars

\* both tenants have a row for file id x; a failure of x in the sync of t2
\* has set the row of t2 to error and the row of t1 is Active
C28_Witness ==
    /\ pc = "file"
    /\ cur_tenant = "t2"
    /\ "x" \in parse_failed
    /\ StatusOf(sync_data, <<"t2", "f1", "x">>) = "error"
    /\ StatusOf(sync_data, <<"t1", "f1", "x">>) = "active"

====
